---------------------------- MODULE Spec2Model ----------------------------
(***************************************************************************)
(* A model of File_Program.py: an interactive program that reads a text    *)
(* file, applies one of seven whole-content transformations and writes the *)
(* result to another file.                                                 *)
(*                                                                         *)
(* Text is a sequence of one-character strings.  A file on disk is a       *)
(* sequence of bytes; the characters used here are ASCII, one byte each,   *)
(* and the byte BadByte stands for a byte that is not valid UTF-8.         *)
(***************************************************************************)
EXTENDS Integers, Sequences, FiniteSets, TLC

(***************************************************************************)
(* Bounds of the model.                                                    *)
(***************************************************************************)
\* longest text the transformer is applied to in SpecT
MaxLen == 3
\* longest initial content (in bytes) of the file "a"
MaxFileLen == 1
\* length of the initial content (in bytes) of the file "b", when it exists
MaxOtherLen == 1
\* most transformations SpecT applies in a row
MaxApplied == 2
\* longest text of words and whitespace the transformer is applied to in SpecW
MaxWsLen == 5
\* longest text the preview is printed for in SpecP
MaxPreviewText == 250

(***************************************************************************)
(* Characters and text.                                                    *)
(***************************************************************************)
Nul == "NUL"          \* the character U+0000
BadByte == "xFF"      \* a byte that no UTF-8 sequence contains
Kra == "U+0138"       \* a lowercase letter (category Ll) with no uppercase form
UpsilonHook == "U+03D2"  \* an uppercase letter (category Lu) with no lowercase form

\* the characters of text contents
ContentChars == {"a", "A", " ", "\n", "'", Kra, UpsilonHook}

\* the characters of the texts of words and whitespace
WsChars == {"a", "A", " ", "\n"}

\* the bytes of the files that exist when the program starts
FileBytes == {"a", "A", " ", "\n", "\r", BadByte}

\* all sequences over S of length at most n
SeqsUpTo(S, n) == UNION {[1..k -> S] : k \in 0..n}

\* str.isspace() for one character
IsSpace(c) == c \in {" ", "\n", "\r", "\t"}

\* whether a character is cased (has an upper- or lowercase form)
IsCased(c) == c \in {"a", "A", "y", "Y", "n", "N", Kra, UpsilonHook}

\* str.islower() for one character
IsLower(c) == c \in {"a", "y", "n", Kra}

\* str.isupper() for one character
IsUpper(c) == c \in {"A", "Y", "N", UpsilonHook}

\* str.upper() of one character (a string: an uppercase form may be longer)
UpperChar(c) ==
    CASE c = "a" -> <<"A">>
      [] c = "y" -> <<"Y">>
      [] c = "n" -> <<"N">>
      [] OTHER   -> <<c>>

\* str.lower() of one character
LowerChar(c) ==
    CASE c = "A" -> <<"a">>
      [] c = "Y" -> <<"y">>
      [] c = "N" -> <<"n">>
      [] OTHER   -> <<c>>

RECURSIVE MapConcat(_, _)
\* the concatenation of F[c] for the characters c of s, in order
MapConcat(F, s) ==
    IF s = <<>> THEN <<>> ELSE F[Head(s)] \o MapConcat(F, Tail(s))

\* every character that occurs in some text of the model
AllChars == ContentChars \cup FileBytes \cup
            {"y", "Y", "n", "N", "b", "1", "2", "3", "4", "5", "6", "7", "8", "\t", Nul}

\* a faulty variant of Upper: str.capitalize(), which puts the first
\* character in uppercase and the others in lowercase
Upper_Capitalize(s) ==
    UpperChar(Head(s))
    \o MapConcat([c \in AllChars |-> LowerChar(c)], Tail(s))

\* str.upper()
Upper(s) == MapConcat([c \in AllChars |-> UpperChar(c)], s)

\* str.lower()
Lower(s) == MapConcat([c \in AllChars |-> LowerChar(c)], s)

RECURSIVE TitleFrom(_, _)
\* str.title() of s, given whether the character before s is cased
TitleFrom(s, previousIsCased) ==
    IF s = <<>> THEN <<>>
    ELSE LET c == Head(s)
         IN  (IF IsCased(c)
                 THEN (IF previousIsCased THEN LowerChar(c) ELSE UpperChar(c))
                 ELSE <<c>>)
             \o TitleFrom(Tail(s), IsCased(c))

\* a faulty variant of Title: the first character in uppercase, every other
\* character in lowercase
Title_FirstOnly(s) ==
    UpperChar(Head(s)) \o MapConcat([c \in AllChars |-> LowerChar(c)], Tail(s))

\* str.title()
Title(s) == TitleFrom(s, FALSE)

\* a faulty variant of Reverse: s[:0:-1], which leaves out the first character
Reverse_SkipsFirst(s) ==
    [i \in 1..(Len(s) - 1) |-> s[Len(s) + 1 - i]]

RECURSIVE Reverse(_)
\* s[::-1]
Reverse(s) ==
    IF s = <<>> THEN <<>> ELSE Reverse(Tail(s)) \o <<Head(s)>>

\* a faulty variant of Double: content + content[1:]
Double_Overlap(s) == s \o Tail(s)

\* s * 2
Double(s) == s \o s

RECURSIVE LStrip(_)
\* s without its leading whitespace
LStrip(s) ==
    IF s # <<>> /\ IsSpace(Head(s)) THEN LStrip(Tail(s)) ELSE s

\* str.strip()
Strip(s) == Reverse(LStrip(Reverse(LStrip(s))))

RECURSIVE SplitFrom(_, _)
\* str.split() of s, given the word cur read so far
SplitFrom(s, cur) ==
    IF s = <<>>
    THEN (IF cur = <<>> THEN <<>> ELSE <<cur>>)
    ELSE IF IsSpace(Head(s))
         THEN (IF cur = <<>> THEN <<>> ELSE <<cur>>) \o SplitFrom(Tail(s), <<>>)
         ELSE SplitFrom(Tail(s), Append(cur, Head(s)))

\* str.split(): the whitespace-delimited words of s
Split(s) == SplitFrom(s, <<>>)

RECURSIVE Join(_, _)
\* sep.join(words)
Join(sep, words) ==
    IF words = <<>> THEN <<>>
    ELSE IF Len(words) = 1 THEN Head(words)
    ELSE Head(words) \o sep \o Join(sep, Tail(words))

\* a faulty variant of RemoveSpaces: runs of whitespace are replaced by one
\* space and the ends are not trimmed
RemoveSpaces_NoTrim(s) ==
    (IF IsSpace(s[1]) /\ Split(s) # <<>> THEN <<" ">> ELSE <<>>)
    \o Join(<<" ">>, Split(s))
    \o (IF IsSpace(s[Len(s)]) THEN <<" ">> ELSE <<>>)

\* ' '.join(content.split())
RemoveSpaces(s) == Join(<<" ">>, Split(s))

\* the keys of modification_types
ModificationTypes ==
    {"upper", "lower", "title", "reverse", "double", "remove_spaces", "default"}

\* a faulty variant of modify_content: the early return of lines 50-51
\* returns None
modify_content_EmptyNone(content, modification_type) ==
    IF content = <<>> THEN <<"<None>">>
    ELSE CASE modification_type = "upper"         -> Upper(content)
           [] modification_type = "lower"         -> Lower(content)
           [] modification_type = "title"         -> Title(content)
           [] modification_type = "reverse"       -> Reverse(content)
           [] modification_type = "double"        -> Double(content)
           [] modification_type = "remove_spaces" -> RemoveSpaces(content)
           [] modification_type = "default"       -> content
           [] OTHER                               -> content

\* modify_content(content, modification_type)
modify_content(content, modification_type) ==
    IF content = <<>> THEN content
    ELSE CASE modification_type = "upper"         -> Upper(content)
           [] modification_type = "lower"         -> Lower(content)
           [] modification_type = "title"         -> Title(content)
           [] modification_type = "reverse"       -> Reverse(content)
           [] modification_type = "double"        -> Double(content)
           [] modification_type = "remove_spaces" -> RemoveSpaces(content)
           [] modification_type = "default"       -> content
           [] OTHER                               -> content


(***************************************************************************)
(* The file system and the text encoding.                                  *)
(***************************************************************************)
\* content of a local variable that holds None
None == <<"<None>">>
\* a local variable that has not been assigned yet
Unassigned == <<"<unassigned>">>
\* the entry of a path at which no file exists
Absent == <<"<absent>">>

\* what the user may type at a filename prompt
FilenameLines ==
    {<<>>, <<" ">>, <<"a">>, <<" ", "a", " ">>, <<"b">>, <<"b", "\t">>, <<"a", Nul>>}

\* what the user may type at a y/n prompt
AnswerLines == {<<"y">>, <<"Y">>, <<"n">>, <<>>, <<" ", "y">>, <<"y", "Y">>}

\* what the user may type at the menu prompt
ChoiceLines ==
    {<<"1">>, <<"2">>, <<"3">>, <<"4">>, <<"5">>, <<"6">>, <<"7">>,
     <<"8">>, <<>>, <<"1", "2">>, <<" ", "4", " ">>, <<"a">>}

\* whether a path holds the character U+0000
HasNul(path) == \E i \in 1..Len(path) : path[i] = Nul

\* the paths the file system is asked about
Paths == {Strip(l) : l \in FilenameLines} \ ({<<>>} \cup {Strip(l) : l \in {m \in FilenameLines : HasNul(m)}})

\* the content of the second file when the program starts
OtherContents == {Absent, [i \in 1..MaxOtherLen |-> "A"]}

\* whether bytes are valid UTF-8
Decodable(bytes) == \A i \in 1..Len(bytes) : bytes[i] # BadByte

RECURSIVE Decode(_)
\* the text a text-mode read returns for bytes: UTF-8 decoding with universal
\* newlines ("\r\n" and "\r" are read as "\n")
Decode(bytes) ==
    IF bytes = <<>> THEN <<>>
    ELSE IF Head(bytes) = "\r"
         THEN IF Len(bytes) >= 2 /\ bytes[2] = "\n"
              THEN <<"\n">> \o Decode(Tail(Tail(bytes)))
              ELSE <<"\n">> \o Decode(Tail(bytes))
         ELSE <<Head(bytes)>> \o Decode(Tail(bytes))

RECURSIVE Encode(_, _)
\* the bytes a text-mode write produces for text: "\n" is written as os.linesep
Encode(text, sep) ==
    IF text = <<>> THEN <<>>
    ELSE (IF Head(text) = "\n" THEN sep ELSE <<Head(text)>>) \o Encode(Tail(text), sep)

\* a faulty variant of Exists: every path is taken as new
Exists_Never(files, filename) == FALSE

\* os.path.exists(filename): False for a path with an embedded null character
Exists(files, filename) ==
    /\ ~HasNul(filename)
    /\ filename \in DOMAIN files
    /\ files[filename] # Absent

(***************************************************************************)
(* Exceptions.                                                             *)
(***************************************************************************)
\* the base class of each exception class used
BaseOf(cls) ==
    CASE cls = "FileNotFoundError"  -> "OSError"
      [] cls = "PermissionError"    -> "OSError"
      [] cls = "OSError"            -> "Exception"
      [] cls = "UnicodeDecodeError" -> "ValueError"
      [] cls = "ValueError"         -> "Exception"
      [] cls = "EOFError"           -> "Exception"
      [] cls = "Exception"          -> "BaseException"
      [] cls = "KeyboardInterrupt"  -> "BaseException"
      [] cls = "SystemExit"         -> "BaseException"
      [] OTHER                      -> "object"

RECURSIVE IsInstance(_, _)
\* whether an exception of class exc is caught by "except cls"
IsInstance(exc, cls) ==
    IF exc = cls THEN TRUE
    ELSE IF exc \in {"none", "object", "BaseException"} THEN FALSE
    ELSE IsInstance(BaseOf(exc), cls)

\* what open(filename, 'r', encoding='utf-8') and file.read() raise
\* ("none": nothing), given the file system
ReadRaises(files, filename) ==
    IF HasNul(filename) THEN {"ValueError"}
    ELSE IF files[filename] = Absent THEN {"FileNotFoundError"}
    ELSE (IF Decodable(files[filename]) THEN {"none"} ELSE {"UnicodeDecodeError"})
         \cup {"PermissionError", "OSError"}

\* read_file(filename), when open/read raise exc: the value returned, what
\* is printed, and the exception that leaves the function
read_file(files, filename, exc) ==
    IF exc = "none"
    THEN [ret |-> Decode(files[filename]), printed |-> <<"Successfully read">>,
          raised |-> "none"]
    ELSE IF IsInstance(exc, "FileNotFoundError")
    THEN [ret |-> None, printed |-> <<"Error: file not found">>, raised |-> "none"]
    ELSE IF IsInstance(exc, "PermissionError")
    THEN [ret |-> None, printed |-> <<"Error: permission denied to read">>,
          raised |-> "none"]
    ELSE IF IsInstance(exc, "UnicodeDecodeError")
    THEN [ret |-> None, printed |-> <<"Error: cannot decode the file">>,
          raised |-> "none"]
    ELSE IF IsInstance(exc, "OSError")
    THEN [ret |-> None, printed |-> <<"Error: unable to read file">>,
          raised |-> "none"]
    ELSE [ret |-> None, printed |-> <<>>, raised |-> exc]

\* whether open(filename, 'r') has returned a file when exc is raised: the
\* errors of the path are raised by open(), the others by file.read()
ReadOpens(exc) == exc \notin {"ValueError", "FileNotFoundError", "PermissionError"}

\* a faulty variant of with_exit: the file is closed by a file.close() that
\* follows the read or write, which an exception skips
with_exit_CloseSkipped(handles, handle, exc) ==
    IF exc = "none" THEN handles \ {handle} ELSE handles

\* the with statements of lines 21 and 84: the file is closed when the block
\* is left, whether normally or by the exception exc
with_exit(handles, handle, exc) == handles \ {handle}

\* the prefixes of bytes that are shorter than bytes
ProperPrefixes(bytes) == {SubSeq(bytes, 1, k) : k \in 0..(Len(bytes) - 1)}

\* a faulty variant of WriteEffects: a write that raises nothing may leave
\* the last byte unwritten
WriteEffects_ShortWrite(filename, bytes) ==
    {[exc |-> "none", opened |-> TRUE, disk |-> d] :
        d \in {bytes, SubSeq(bytes, 1, Len(bytes) - 1)}}

\* what open(filename, 'w', encoding='utf-8'), file.write(content) and the
\* closing of the file do: the exception raised ("none": nothing), whether
\* the file was opened (and so truncated), and the bytes then on disk
WriteEffects(filename, bytes) ==
    IF HasNul(filename)
    THEN {[exc |-> "ValueError", opened |-> FALSE, disk |-> <<>>]}
    ELSE {[exc |-> "none", opened |-> TRUE, disk |-> bytes]}
         \cup {[exc |-> e, opened |-> FALSE, disk |-> <<>>] :
                 e \in {"PermissionError", "OSError"}}
         \cup {[exc |-> e, opened |-> TRUE, disk |-> d] :
                 e \in {"OSError", "KeyboardInterrupt"}, d \in ProperPrefixes(bytes)}

\* the except clauses of write_file, when open/write raise exc: the value
\* returned, what is printed, and the exception that leaves the function
write_file_result(exc) ==
    IF exc = "none"
    THEN [ret |-> "True", printed |-> <<"Successfully wrote">>, raised |-> "none"]
    ELSE IF IsInstance(exc, "PermissionError")
    THEN [ret |-> "False", printed |-> <<"Error: permission denied to write">>,
          raised |-> "none"]
    ELSE IF IsInstance(exc, "OSError")
    THEN [ret |-> "False", printed |-> <<"Error: unable to write to file">>,
          raised |-> "none"]
    ELSE [ret |-> "raised", printed |-> <<>>, raised |-> exc]

\* a faulty variant of write_file_declined: True is returned after the
\* cancellation
write_file_declined_True ==
    [ret |-> "True", printed |-> <<"Operation cancelled.">>, raised |-> "none"]

\* write_file when the overwrite is not confirmed: the value returned and
\* what is printed
write_file_declined ==
    [ret |-> "False", printed |-> <<"Operation cancelled.">>, raised |-> "none"]

\* a faulty variant of modification_map: '1' and '2' are exchanged
modification_map_Swapped(choice) ==
    CASE choice = <<"1">> -> "lower"
      [] choice = <<"2">> -> "upper"
      [] choice = <<"3">> -> "title"
      [] choice = <<"4">> -> "reverse"
      [] choice = <<"5">> -> "double"
      [] choice = <<"6">> -> "remove_spaces"
      [] choice = <<"7">> -> "default"

\* get_modification_choice's modification_map
modification_map(choice) ==
    CASE choice = <<"1">> -> "upper"
      [] choice = <<"2">> -> "lower"
      [] choice = <<"3">> -> "title"
      [] choice = <<"4">> -> "reverse"
      [] choice = <<"5">> -> "double"
      [] choice = <<"6">> -> "remove_spaces"
      [] choice = <<"7">> -> "default"

\* the choices get_modification_choice accepts
ValidChoices == {<<"1">>, <<"2">>, <<"3">>, <<"4">>, <<"5">>, <<"6">>, <<"7">>}

\* the number of characters the preview shows
PreviewLen == 200

\* a faulty variant of PreviewOf: the text is cut when len(modified_content)
\* >= 200
PreviewOf_AtLeast(text) ==
    IF Len(text) >= PreviewLen
    THEN SubSeq(text, 1, PreviewLen) \o <<".", ".", ".">>
    ELSE text

\* modified_content[:200] + ("..." if len(modified_content) > 200 else "")
PreviewOf(text) ==
    IF Len(text) > PreviewLen
    THEN SubSeq(text, 1, PreviewLen) \o <<".", ".", ".">>
    ELSE text

\* the handlers around main(): what is printed for an exception that leaves
\* main (sys.exit's SystemExit is not handled and prints nothing)
top_level_printed(exc) ==
    IF IsInstance(exc, "KeyboardInterrupt")
    THEN <<"Program interrupted by user. Goodbye!">>
    ELSE IF IsInstance(exc, "Exception")
    THEN <<"Unexpected error">>
    ELSE <<>>

\* a faulty variant of top_level_status: a KeyboardInterrupt that is not
\* handled ends the process with status 130
top_level_status_Unhandled(exc) ==
    IF IsInstance(exc, "KeyboardInterrupt") THEN 130 ELSE 0

\* the exit status of the process when exc leaves main: sys.exit(0) gives 0,
\* a handled exception lets the script end normally
top_level_status(exc) == 0

(***************************************************************************)
(* The state of the program and of its environment.                        *)
(***************************************************************************)
VARIABLES
    fs,                 \* the file system: the bytes of each path, or Absent
    linesep,            \* os.linesep of the platform
    pc,                 \* the prompt main() is blocked at, or "Done"
    input_filename,     \* main's local variables ...
    content,
    modification_type,
    modified_content,
    output_filename,
    printed,            \* what the last step printed, in order
    exit_status,        \* the exit status of the process, NotExited before
    reported,           \* the lengths and the preview main printed
    fs0,                \* history: the file system when the program started
    calls,              \* history: the functions called so far
    applied,            \* history: the modification types applied, in order
    last,               \* history: what the last step did
    open_files,         \* the files that are open: a path and a mode each
    opened_for_writing  \* history: the paths open(..., 'w') was called with

vars == <<fs, linesep, pc, input_filename, content, modification_type,
          modified_content, output_filename, printed, exit_status, reported,
          fs0, calls, applied, last, open_files, opened_for_writing>>

\* exit_status while the process runs
NotExited == -1

\* the prompts of the program: the input() calls of lines 140, 149, 114,
\* 162, 79 and 170
Prompts == {"AwaitInputPath", "ReadRetry", "SelectTransform", "AwaitOutputPath",
            "ConfirmOverwrite", "WriteRetry"}

\* a step that called neither read_file nor write_file
NoCall(op) == [op |-> op, exc |-> "none", ret |-> "none", before |-> Unassigned]

\* the state when main() starts, given the files that exist
Init ==
    /\ \E ca \in SeqsUpTo(FileBytes, MaxFileLen) \cup {Absent}, cb \in OtherContents :
          fs = [p \in Paths |-> IF p = <<"a">> THEN ca ELSE cb]
    /\ fs0 = fs
    /\ linesep \in {<<"\n">>, <<"\r", "\n">>}
    /\ pc = "AwaitInputPath"
    /\ input_filename = Unassigned
    /\ content = Unassigned
    /\ modification_type = "none"
    /\ modified_content = Unassigned
    /\ output_filename = Unassigned
    /\ printed = <<"FILE HANDLER PROGRAM">>
    /\ exit_status = NotExited
    /\ reported = Unassigned
    /\ calls = {}
    /\ applied = <<>>
    /\ last = NoCall("start")
    /\ open_files = {}
    /\ opened_for_writing = {}

\* an exception exc leaves main(): the handlers of lines 189-194 run and the
\* process ends; already is what the step printed before
Terminate(exc, already) ==
    /\ pc' = "Done"
    /\ printed' = already \o top_level_printed(exc)
    /\ exit_status' = top_level_status(exc)

\* main() returns: the process ends normally
Return(already) ==
    /\ pc' = "Done"
    /\ printed' = already
    /\ exit_status' = 0

\* a faulty variant of ReadSucceeded: the test is "if content:", which an
\* empty text fails
ReadSucceeded_Truthy(ret) == ret # None /\ ret # <<>>

\* line 146: "content is not None", the test that ends the read loop
ReadSucceeded(ret) == ret # None

\* lines 140-152: a line is entered at "Enter the filename to read"
EnterInputPath(line) ==
    /\ pc = "AwaitInputPath"
    /\ LET name == Strip(line)
       IN  /\ input_filename' = name
           /\ IF name = <<>>
              THEN /\ printed' = <<"Please enter a valid filename.">>
                   /\ last' = NoCall("prompt")
                   /\ UNCHANGED <<pc, content, exit_status, calls, open_files>>
              ELSE \E exc \in ReadRaises(fs, name) :
                     LET r == read_file(fs, name, exc)
                     IN  /\ calls' = calls \cup {"Reader"}
                         /\ open_files' =
                               IF ReadOpens(exc)
                               THEN with_exit(open_files \cup {<<name, "r">>},
                                              <<name, "r">>, exc)
                               ELSE open_files
                         /\ last' = [op |-> "read", exc |-> exc,
                                     ret |-> IF r.raised # "none" THEN "raised"
                                             ELSE IF r.ret = None THEN "None" ELSE "str",
                                     before |-> Unassigned]
                         /\ IF r.raised # "none"
                            THEN /\ Terminate(r.raised, r.printed)
                                 /\ UNCHANGED content
                            ELSE /\ content' = r.ret
                                 /\ printed' = r.printed
                                 /\ pc' = IF ReadSucceeded(r.ret) THEN "SelectTransform"
                                                          ELSE "ReadRetry"
                                 /\ UNCHANGED exit_status
    /\ UNCHANGED <<opened_for_writing, fs, linesep, modification_type, modified_content,
                   output_filename, reported, fs0, applied>>

\* a faulty variant of AnswerReadRetry: only an explicit "n" ends the program
AnswerReadRetry_OnlyNo(line) ==
    /\ pc = "ReadRetry"
    /\ IF Lower(line) = <<"n">>
       THEN Return(<<"Goodbye!">>)
       ELSE /\ pc' = "AwaitInputPath"
            /\ printed' = <<>>
            /\ UNCHANGED exit_status
    /\ last' = NoCall("prompt")
    /\ UNCHANGED <<opened_for_writing, open_files, fs, linesep, input_filename, content, modification_type,
                   modified_content, output_filename, reported, fs0, calls, applied>>

\* lines 149-152: a line is entered at "Would you like to try another file?"
AnswerReadRetry(line) ==
    /\ pc = "ReadRetry"
    /\ IF Lower(line) # <<"y">>
       THEN Return(<<"Goodbye!">>)
       ELSE /\ pc' = "AwaitInputPath"
            /\ printed' = <<>>
            /\ UNCHANGED exit_status
    /\ last' = NoCall("prompt")
    /\ UNCHANGED <<opened_for_writing, open_files, fs, linesep, input_filename, content, modification_type,
                   modified_content, output_filename, reported, fs0, calls, applied>>

\* lines 114-127 and 155-158: a line is entered at "Enter your choice (1-7)"
EnterChoice(line) ==
    /\ pc = "SelectTransform"
    /\ LET choice == Strip(line)
       IN  IF choice \in ValidChoices
           THEN /\ modification_type' = modification_map(choice)
                /\ modified_content' = modify_content(content, modification_map(choice))
                /\ calls' = calls \cup {"Transformer"}
                /\ applied' = Append(applied, modification_map(choice))
                /\ pc' = "AwaitOutputPath"
                /\ printed' = <<>>
                /\ last' = NoCall("transform")
           ELSE /\ printed' = <<"Please enter a number between 1 and 7.">>
                /\ last' = NoCall("prompt")
                /\ UNCHANGED <<modification_type, modified_content, calls, applied, pc>>
    /\ UNCHANGED <<opened_for_writing, open_files, fs, linesep, input_filename, content, output_filename,
                   exit_status, reported, fs0>>

\* lines 167-186: write_file(output_filename, modified_content) has ended with
\* the result r; main goes on
AfterWrite(r, name) ==
    IF r.raised # "none"
    THEN /\ Terminate(r.raised, r.printed)
         /\ UNCHANGED reported
    ELSE IF r.ret = "True"
    THEN /\ Return(r.printed \o <<"PREVIEW", "Operation completed successfully!">>)
         /\ reported' = [original |-> Len(content),
                         modified |-> Len(modified_content),
                         preview  |-> PreviewOf(modified_content),
                         saved_to |-> name]
    ELSE /\ pc' = "WriteRetry"
         /\ printed' = r.printed
         /\ UNCHANGED <<exit_status, reported>>

\* lines 84-94: the file is opened for writing and the content written
OpenAndWrite(name) ==
    \E eff \in WriteEffects(name, Encode(modified_content, linesep)) :
        /\ fs' = IF eff.opened THEN [fs EXCEPT ![name] = eff.disk] ELSE fs
        /\ open_files' =
              IF eff.opened
              THEN with_exit(open_files \cup {<<name, "w">>}, <<name, "w">>, eff.exc)
              ELSE open_files
        /\ opened_for_writing' = opened_for_writing \cup {name}
        /\ last' = [op |-> "write", exc |-> eff.exc,
                    ret |-> write_file_result(eff.exc).ret,
                    before |-> IF name \in DOMAIN fs THEN fs[name] ELSE Absent]
        /\ AfterWrite(write_file_result(eff.exc), name)

\* lines 162-173 and 76-94: a line is entered at "Enter output filename"
EnterOutputPath(line) ==
    /\ pc = "AwaitOutputPath"
    /\ LET name == Strip(line)
       IN  /\ output_filename' = name
           /\ IF name = <<>>
              THEN /\ printed' = <<"Please enter a valid filename.">>
                   /\ last' = NoCall("prompt")
                   /\ UNCHANGED <<fs, pc, exit_status, reported, calls, open_files,
                                   opened_for_writing>>
              ELSE /\ calls' = calls \cup {"Writer"}
                   /\ IF Exists(fs, name)
                      THEN /\ pc' = "ConfirmOverwrite"
                           /\ printed' = <<>>
                           /\ last' = NoCall("prompt")
                           /\ UNCHANGED <<fs, exit_status, reported, open_files,
                                        opened_for_writing>>
                      ELSE OpenAndWrite(name)
    /\ UNCHANGED <<linesep, input_filename, content, modification_type,
                   modified_content, fs0, applied>>

\* a faulty variant of AnswerOverwrite: the answer is not looked at
AnswerOverwrite_AnyAnswer(line) ==
    /\ pc = "ConfirmOverwrite"
    /\ OpenAndWrite(output_filename)
    /\ UNCHANGED <<linesep, input_filename, content, modification_type,
                   modified_content, output_filename, fs0, calls, applied>>

\* lines 79-94 and 167-173: a line is entered at "File already exists.
\* Overwrite? (y/n)"
AnswerOverwrite(line) ==
    /\ pc = "ConfirmOverwrite"
    /\ IF Lower(line) # <<"y">>
       THEN /\ last' = [op |-> "write", exc |-> "declined",
                        ret |-> write_file_declined.ret,
                        before |-> fs[output_filename]]
            /\ AfterWrite(write_file_declined, output_filename)
            /\ UNCHANGED <<fs, open_files, opened_for_writing>>
       ELSE OpenAndWrite(output_filename)
    /\ UNCHANGED <<linesep, input_filename, content, modification_type,
                   modified_content, output_filename, fs0, calls, applied>>

\* a faulty variant of AnswerWriteRetry: a yes leads back to the menu
AnswerWriteRetry_BackToMenu(line) ==
    /\ pc = "WriteRetry"
    /\ IF Lower(line) # <<"y">>
       THEN Return(<<"Operation cancelled.">>)
       ELSE /\ pc' = "SelectTransform"
            /\ printed' = <<>>
            /\ UNCHANGED exit_status
    /\ last' = NoCall("prompt")
    /\ UNCHANGED <<opened_for_writing, open_files, fs, linesep, input_filename, content, modification_type,
                   modified_content, output_filename, reported, fs0, calls, applied>>

\* lines 170-173: a line is entered at "Would you like to try another
\* filename?"
AnswerWriteRetry(line) ==
    /\ pc = "WriteRetry"
    /\ IF Lower(line) # <<"y">>
       THEN Return(<<"Operation cancelled.">>)
       ELSE /\ pc' = "AwaitOutputPath"
            /\ printed' = <<>>
            /\ UNCHANGED exit_status
    /\ last' = NoCall("prompt")
    /\ UNCHANGED <<opened_for_writing, open_files, fs, linesep, input_filename, content, modification_type,
                   modified_content, output_filename, reported, fs0, calls, applied>>

\* what get_modification_choice's handler of lines 128-130 prints
interrupt_in_menu_printed == <<"Operation cancelled.">>

\* the user interrupts the program while it waits at a prompt: at the menu
\* lines 128-130 run (sys.exit(0)), elsewhere KeyboardInterrupt leaves main
Interrupt ==
    /\ pc \in Prompts
    /\ IF pc = "SelectTransform"
       THEN Terminate("SystemExit", interrupt_in_menu_printed)
       ELSE Terminate(write_file_result("KeyboardInterrupt").raised, <<>>)
    /\ last' = NoCall("interrupt")
    /\ UNCHANGED <<opened_for_writing, open_files, fs, linesep, input_filename, content, modification_type,
                   modified_content, output_filename, reported, fs0, calls, applied>>

\* the input ends while the program waits at a prompt: input() raises
\* EOFError, which no handler but the one of line 193 catches
EndOfInput ==
    /\ pc \in Prompts
    /\ Terminate("EOFError", <<>>)
    /\ last' = NoCall("eof")
    /\ UNCHANGED <<opened_for_writing, open_files, fs, linesep, input_filename, content, modification_type,
                   modified_content, output_filename, reported, fs0, calls, applied>>

Next ==
    \/ \E line \in FilenameLines : EnterInputPath(line)
    \/ \E line \in AnswerLines : AnswerReadRetry(line)
    \/ \E line \in ChoiceLines : EnterChoice(line)
    \/ \E line \in FilenameLines : EnterOutputPath(line)
    \/ \E line \in AnswerLines : AnswerOverwrite(line)
    \/ \E line \in AnswerLines : AnswerWriteRetry(line)
    \/ Interrupt
    \/ EndOfInput

Spec == Init /\ [][Next]_vars

(***************************************************************************)
(* The transformer alone: modify_content applied to every text of at most  *)
(* MaxLen characters, up to MaxApplied times in a row.                     *)
(***************************************************************************)
InitT ==
    /\ fs = [p \in Paths |-> Absent]
    /\ fs0 = fs
    /\ linesep = <<"\n">>
    /\ pc = "Transformer"
    /\ input_filename = Unassigned
    /\ content \in SeqsUpTo(ContentChars, MaxLen)
    /\ modification_type = "none"
    /\ modified_content = content
    /\ output_filename = Unassigned
    /\ printed = <<>>
    /\ exit_status = NotExited
    /\ reported = Unassigned
    /\ calls = {}
    /\ applied = <<>>
    /\ last = NoCall("start")
    /\ open_files = {}
    /\ opened_for_writing = {}

\* modify_content is applied to the result so far
Apply(kind) ==
    /\ pc = "Transformer"
    /\ Len(applied) < MaxApplied
    /\ modification_type' = kind
    /\ modified_content' = modify_content(modified_content, kind)
    /\ applied' = Append(applied, kind)
    /\ calls' = calls \cup {"Transformer"}
    /\ UNCHANGED <<opened_for_writing, open_files, fs, linesep, pc, input_filename, content, output_filename,
                   printed, exit_status, reported, fs0, last>>

NextT == \E kind \in ModificationTypes : Apply(kind)

SpecT == InitT /\ [][NextT]_vars

(***************************************************************************)
(* The transformer on texts of words and whitespace of at most MaxWsLen    *)
(* characters.                                                             *)
(***************************************************************************)
InitW ==
    /\ fs = [p \in Paths |-> Absent]
    /\ fs0 = fs
    /\ linesep = <<"\n">>
    /\ pc = "Transformer"
    /\ input_filename = Unassigned
    /\ content \in SeqsUpTo(WsChars, MaxWsLen)
    /\ modification_type = "none"
    /\ modified_content = content
    /\ output_filename = Unassigned
    /\ printed = <<>>
    /\ exit_status = NotExited
    /\ reported = Unassigned
    /\ calls = {}
    /\ applied = <<>>
    /\ last = NoCall("start")
    /\ open_files = {}
    /\ opened_for_writing = {}

SpecW == InitW /\ [][NextT]_vars

(***************************************************************************)
(* The preview alone: main() from the moment write_file has returned True  *)
(* at line 167, for texts of up to MaxPreviewText characters that were     *)
(* read from "a" and written unchanged to "b".                             *)
(***************************************************************************)
\* the texts of letters (no line ends) of up to MaxPreviewText characters, in
\* which "a" and "A" alternate
PreviewTexts ==
    {[i \in 1..n |-> IF i % 2 = k THEN "a" ELSE "A"] :
        n \in 0..MaxPreviewText, k \in 0..1}

InitP ==
    /\ \E text \in PreviewTexts :
          /\ content = text
          /\ modified_content = modify_content(text, "default")
          /\ fs0 = [p \in Paths |-> IF p = <<"a">> THEN text ELSE Absent]
          \* a text of ASCII letters is written as the same bytes
          /\ fs = [p \in Paths |-> text]
    /\ linesep = <<"\n">>
    /\ pc = "Writing"
    /\ input_filename = <<"a">>
    /\ modification_type = "default"
    /\ output_filename = <<"b">>
    /\ printed = <<>>
    /\ exit_status = NotExited
    /\ reported = Unassigned
    /\ calls = {"Reader", "Transformer", "Writer"}
    /\ applied = <<"default">>
    /\ last = [op |-> "write", exc |-> "none", ret |-> write_file_result("none").ret,
               before |-> Absent]
    /\ open_files = {}
    /\ opened_for_writing = {output_filename}

\* lines 167-186: write_file has returned; main prints the preview
ShowPreview ==
    /\ pc = "Writing"
    /\ AfterWrite(write_file_result(last.exc), output_filename)
    /\ UNCHANGED <<opened_for_writing, open_files, fs, linesep, input_filename, content, modification_type,
                   modified_content, output_filename, fs0, calls, applied, last>>

NextP == ShowPreview

SpecP == InitP /\ [][NextP]_vars

(***************************************************************************)
(* The claims.                                                             *)
(***************************************************************************)
\* whether the last step printed msg
Printed(msg) == \E i \in 1..Len(printed) : printed[i] = msg

\* the last step ended main() with the preview and the completion message
Completed == pc = "Done" /\ Printed("Operation completed successfully!")

\* the answers the code does not take as a yes
NonAffirmative == {line \in AnswerLines : Lower(line) # <<"y">>}

\* C1: when the completion message is printed, the file at the output path
\* entered last holds (read back as text) exactly modify_content of the text
\* the last successful read_file returned, which is the text of the input file
\* as it was at the start, under the type chosen at the menu; the original
\* length reported is the length of that source text and the modified length
\* reported is the length of the text written.
C1_OutputIsTransformOfSource ==
    Completed =>
        /\ Exists(fs, output_filename)
        /\ Decodable(fs[output_filename])
        /\ Decode(fs[output_filename]) = modify_content(content, modification_type)
        /\ applied = <<modification_type>>
        /\ content = Decode(fs0[input_filename])
        /\ reported.original = Len(content)
        /\ reported.modified = Len(Decode(fs[output_filename]))
        /\ reported.saved_to = output_filename

\* C1's case: a file holding "a" was read, UPPERCASE chosen, and "A" written
\* to a path at which no file existed.
C1_Witness ==
    /\ Completed
    /\ content = <<"a">>
    /\ modification_type = "upper"
    /\ fs0[output_filename] = Absent
    /\ fs[output_filename] = <<"A">>
    /\ reported.original = 1
    /\ reported.modified = 1

\* C2: when the output path exists and the overwrite question is answered
\* with anything but a yes, nothing is written: every file holds after the
\* call what it held before.
C2_DeclineWritesNothing ==
    [][(\E line \in NonAffirmative : AnswerOverwrite(line))
          => (fs' = fs /\ last'.exc = "declined")]_vars

\* C2's case: the overwrite of an existing file was declined, and the content
\* to write differs from what the file holds.
C2_Witness ==
    /\ last.op = "write"
    /\ last.exc = "declined"
    /\ fs[output_filename] # Absent
    /\ fs[output_filename] = fs0[output_filename]
    /\ fs[output_filename] # Encode(modified_content, linesep)

\* C3 as stated: the value write_file returns when the overwrite is declined
\* differs from the value it returns on a PermissionError or another OSError.
C3_DeclinedDistinctFromFailure ==
    (last.op = "write" /\ last.exc = "declined") =>
        last.ret \notin {write_file_result("PermissionError").ret,
                         write_file_result("OSError").ret}

\* C3 as amended: write_file returns False when the overwrite is declined, the
\* same value as on a PermissionError or another OSError, and main shows the
\* write retry prompt in both cases; the decline differs from a failure only
\* in what is printed ("Operation cancelled." instead of an error message).
C3_DeclineReturnsFalseLikeFailure ==
    (last.op = "write" /\ last.exc \in {"declined", "PermissionError", "OSError"}) =>
        /\ last.ret = "False"
        /\ last.ret = write_file_result("PermissionError").ret
        /\ pc = "WriteRetry"
        /\ (last.exc = "declined") <=> (printed = <<"Operation cancelled.">>)

\* C3's case: the overwrite of an existing file was declined and write_file
\* has returned.
C3_Witness ==
    /\ last.op = "write"
    /\ last.exc = "declined"
    /\ last.ret = "False"
    /\ pc = "WriteRetry"
    /\ fs0[output_filename] # Absent

\* the messages read_file and write_file print for a failure
ErrorMessages ==
    {"Error: file not found", "Error: permission denied to read",
     "Error: cannot decode the file", "Error: unable to read file",
     "Error: permission denied to write", "Error: unable to write to file"}

\* C4 as stated: for a non-empty path, whatever open() or read() raise,
\* read_file returns None and prints a message, and main stays in its read
\* retry loop.
C4_ReadNeverRaises ==
    (last.op = "read" /\ last.exc # "none") =>
        /\ last.ret = "None"
        /\ Len(printed) = 1
        /\ printed[1] \in ErrorMessages
        /\ pc = "ReadRetry"
        /\ exit_status = NotExited

\* C5 as stated: after a write attempt the file at the output path holds what
\* it held before the attempt (or is still absent) or the complete content.
C5_WriteAllOrNothing ==
    (last.op = "write" /\ output_filename \in DOMAIN fs) =>
        fs[output_filename] \in {last.before, Encode(modified_content, linesep)}

\* what is printed when an interrupt ends the program
FarewellMessages == {"Operation cancelled.", "Program interrupted by user. Goodbye!"}

\* C6: an interrupt at any prompt ends the process at once: a farewell message
\* is printed, the exit status is 0, no file changes and no function of the
\* program is called by that step, and no step follows it.
C6_InterruptTerminates ==
    /\ [][Interrupt =>
            /\ pc' = "Done"
            /\ exit_status' = 0
            /\ Len(printed') = 1
            /\ printed'[1] \in FarewellMessages
            /\ fs' = fs
            /\ calls' = calls
            /\ <<content, modified_content, reported>>' = <<content, modified_content, reported>>]_vars
    /\ [][pc # "Done"]_vars

\* C6's case: the program was interrupted at the overwrite question.
C6_Witness ==
    /\ last.op = "interrupt"
    /\ pc = "Done"
    /\ exit_status = 0
    /\ "Writer" \in calls
    /\ printed = <<"Program interrupted by user. Goodbye!">>

\* C7: an answer that is not a yes at the read retry prompt ends the program
\* with no call of modify_content or write_file and no file changed; one at
\* the write retry prompt ends it with a cancellation message, no further
\* write and no preview; no step follows either.
C7_DeclinedRetryEnds ==
    /\ [][(\E line \in NonAffirmative : AnswerReadRetry(line)) =>
            /\ pc' = "Done"
            /\ exit_status' = 0
            /\ printed' = <<"Goodbye!">>
            /\ calls' = {"Reader"}
            /\ fs' = fs0]_vars
    /\ [][(\E line \in NonAffirmative : AnswerWriteRetry(line)) =>
            /\ pc' = "Done"
            /\ exit_status' = 0
            /\ printed' = <<"Operation cancelled.">>
            /\ fs' = fs
            /\ reported' = reported]_vars
    /\ [][pc # "Done"]_vars

\* C7's case: the write retry was declined after a failed attempt to write.
C7_Witness ==
    /\ pc = "Done"
    /\ last.op = "prompt"
    /\ printed = <<"Operation cancelled.">>
    /\ calls = {"Reader", "Transformer", "Writer"}

\* C8 as stated: every failure of a read or of a write is followed at once by
\* a printed explanation and by the retry prompt of its loop.
C8_FailureOffersRetry ==
    (last.op \in {"read", "write"} /\ last.exc \notin {"none", "declined", "KeyboardInterrupt"}) =>
        /\ Len(printed) = 1
        /\ printed[1] \in ErrorMessages
        /\ pc = (IF last.op = "read" THEN "ReadRetry" ELSE "WriteRetry")

\* C9: reversing twice gives the text back.
C9_ReverseTwice ==
    (Len(applied) = 2 /\ applied[1] = "reverse" /\ applied[2] = "reverse") =>
        modified_content = content

\* C9's case: a text that is not its own reverse was reversed twice.
C9_Witness ==
    /\ applied = <<"reverse", "reverse">>
    /\ Len(content) >= 2
    /\ content # Reverse(content)
    /\ modified_content = content

\* C10: duplicating a text gives the text followed by itself, twice as long,
\* also for the empty text.
C10_DoubleIsConcat ==
    (Len(applied) >= 1 /\ applied[1] = "double" /\ Len(applied) = 1) =>
        /\ modified_content = content \o content
        /\ Len(modified_content) = 2 * Len(content)

\* C10's case: a text of two different characters was duplicated.
C10_Witness ==
    /\ applied = <<"double">>
    /\ Len(content) = 2
    /\ content[1] # content[2]
    /\ modified_content = <<content[1], content[2], content[1], content[2]>>

\* the characters of s that are not whitespace, in order
NonSpace(s) == SelectSeq(s, LAMBDA c : ~IsSpace(c))

\* the places of s at which a whitespace-delimited word starts
WordStarts(s) == {i \in 1..Len(s) : ~IsSpace(s[i]) /\ (i = 1 \/ IsSpace(s[i - 1]))}

\* C11: collapsing whitespace gives the whitespace-delimited words of the
\* text, in order, joined by exactly one ASCII space: the result neither
\* starts nor ends with whitespace, holds no two whitespace characters in a
\* row and no whitespace but " ", and holds one space less than words.
C11_CollapseWhitespace ==
    (Len(applied) = 1 /\ applied[1] = "remove_spaces") =>
        LET r == modified_content
        IN  /\ \A i \in 1..Len(r) :
                  IsSpace(r[i]) => /\ r[i] = " "
                                   /\ i # 1
                                   /\ i # Len(r)
                                   /\ ~IsSpace(r[i + 1])
            /\ NonSpace(r) = NonSpace(content)
            /\ Split(r) = Split(content)
            /\ Cardinality(WordStarts(r)) = Cardinality(WordStarts(content))
            /\ Len(r) = Len(NonSpace(content))
                        + (IF WordStarts(content) = {} THEN 0
                           ELSE Cardinality(WordStarts(content)) - 1)

\* C11's case: a text that starts with whitespace and holds two words with a
\* run of two different whitespace characters between them was collapsed.
C11_Witness ==
    /\ applied = <<"remove_spaces">>
    /\ content = <<" ", "a", "\n", " ", "A">>
    /\ modified_content = <<"a", " ", "A">>

\* C12 as stated: the uppercased text holds no lowercase letter and the
\* lowercased text holds no uppercase letter.
C12_NoLetterOfTheOtherCase ==
    /\ (Len(applied) = 1 /\ applied[1] = "upper") =>
          \A i \in 1..Len(modified_content) : ~IsLower(modified_content[i])
    /\ (Len(applied) = 1 /\ applied[1] = "lower") =>
          \A i \in 1..Len(modified_content) : ~IsUpper(modified_content[i])

\* C12 as amended: the uppercased text holds no lowercase letter that has an
\* uppercase form, and the lowercased text no uppercase letter that has a
\* lowercase form; a letter with no form in the other case stays in the text.
C12_NoLetterWithAnotherCase ==
    /\ (Len(applied) = 1 /\ applied[1] = "upper") =>
          \A i \in 1..Len(modified_content) :
              IsLower(modified_content[i]) =>
                  UpperChar(modified_content[i]) = <<modified_content[i]>>
    /\ (Len(applied) = 1 /\ applied[1] = "lower") =>
          \A i \in 1..Len(modified_content) :
              IsUpper(modified_content[i]) =>
                  LowerChar(modified_content[i]) = <<modified_content[i]>>

\* C12's case: a text with a lowercase letter that has an uppercase form and
\* one that has none was uppercased.
C12_Witness ==
    /\ applied = <<"upper">>
    /\ content = <<"a", Kra, "'">>
    /\ modified_content = <<"A", Kra, "'">>

\* C13: modify_content gives a text for every text and each of the seven
\* types, and the empty text for the empty text.
C13_EmptyGivesEmpty ==
    (Len(applied) = 1) =>
        /\ applied[1] \in ModificationTypes
        /\ \A i \in 1..Len(modified_content) : modified_content[i] \in ContentChars
        /\ (content = <<>>) => (modified_content = <<>>)

\* C13's case: the empty text was put in title case.
C13_Witness ==
    /\ applied = <<"title">>
    /\ content = <<>>
    /\ modified_content = <<>>

\* C14: the preview is the first 200 characters of the result followed by
\* "..." exactly when the result is longer than 200 characters; a result of
\* 200 characters or fewer is shown whole, with no "...".
C14_PreviewCutAt200 ==
    Completed =>
        LET r == modified_content
            p == reported.preview
        IN  IF Len(r) > 200
            THEN /\ Len(p) = 203
                 /\ SubSeq(p, 1, 200) = SubSeq(r, 1, 200)
                 /\ SubSeq(p, 201, 203) = <<".", ".", ".">>
            ELSE p = r

\* C14's case: the preview of a result of 250 characters was printed.
C14_Witness ==
    /\ Completed
    /\ Len(modified_content) = 250
    /\ Len(reported.preview) = 203
    /\ reported.preview[200] = modified_content[200]
    /\ reported.preview[201] = "."

\* whether the letter at place i of s is the first letter of its
\* whitespace-delimited word
FirstLetterOfWord(s, i) ==
    \A j \in 1..(i - 1) :
        (\A k \in j..(i - 1) : ~IsSpace(s[k])) => ~IsCased(s[j])

\* C15 as stated: title case puts the first letter of each whitespace-delimited
\* word in uppercase and every other letter in lowercase, so that a letter that
\* is not the first letter of such a word (one after an apostrophe inside a
\* word, say) is never put in uppercase.
C15_TitleByWhitespaceWords ==
    (Len(applied) = 1 /\ applied[1] = "title") =>
        /\ Len(modified_content) = Len(content)
        /\ \A i \in 1..Len(content) :
              IsCased(content[i]) =>
                  <<modified_content[i]>> =
                      (IF FirstLetterOfWord(content, i) THEN UpperChar(content[i])
                                                        ELSE LowerChar(content[i]))

\* C15 as amended: title case puts in uppercase every letter that starts a run
\* of letters (the first character, or one that follows a character that is
\* not a letter: whitespace, an apostrophe, a digit) and in lowercase every
\* letter that follows a letter; the other characters stay.
C15_TitleByLetterRuns ==
    (Len(applied) = 1 /\ applied[1] = "title") =>
        /\ Len(modified_content) = Len(content)
        /\ \A i \in 1..Len(content) :
              <<modified_content[i]>> =
                  (IF ~IsCased(content[i]) THEN <<content[i]>>
                   ELSE IF i = 1 \/ ~IsCased(content[i - 1])
                        THEN UpperChar(content[i])
                        ELSE LowerChar(content[i]))

\* C15's case: a word with an apostrophe inside was put in title case, and
\* the letter after the apostrophe is in uppercase.
C15_Witness ==
    /\ applied = <<"title">>
    /\ content = <<"a", "'", "a">>
    /\ modified_content = <<"A", "'", "A">>

\* C16: the operations are ordered read* -> menu -> transform -> write*:
\* read_file is not called once a read has succeeded; modify_content is called
\* at most once, after a successful read and before any call of write_file;
\* write_file is called only after modify_content, and every call of it is
\* given the same modified_content, which a successful call writes.
C16_OperationOrder ==
    /\ []("Writer" \in calls => "Transformer" \in calls)
    /\ []("Transformer" \in calls =>
            /\ "Reader" \in calls
            /\ content \notin {Unassigned, None}
            /\ Len(applied) = 1
            /\ modified_content = modify_content(content, applied[1]))
    /\ [][last'.op = "read" => (content \in {Unassigned, None} /\ calls \subseteq {"Reader"})]_vars
    /\ [][applied' # applied =>
            /\ applied = <<>>
            /\ content \notin {Unassigned, None}
            /\ content' = content
            /\ "Writer" \notin calls]_vars
    /\ [][modified_content # Unassigned => modified_content' = modified_content]_vars
    /\ [][last'.op = "write" =>
            /\ "Transformer" \in calls
            /\ content' = content
            /\ (last'.exc = "none" =>
                  fs'[output_filename'] = Encode(modified_content, linesep))]_vars

\* C16's case: a write failed after it had opened one path, and a later write
\* to another path, the one read from, succeeded.
C16_Witness ==
    /\ Completed
    /\ fs0[input_filename] # Absent
    /\ \E p \in Paths :
          /\ p # output_filename
          /\ p # input_filename
          /\ fs[p] # fs0[p]

\* what the menu of lines 104-110 shows for a number: the text it promises
\* for content
MenuShows(number, text) ==
    IF text = <<>> THEN <<>>
    ELSE CASE number = "1" -> Upper(text)          \* 1. Convert to UPPERCASE
           [] number = "2" -> Lower(text)          \* 2. Convert to lowercase
           [] number = "3" -> Title(text)          \* 3. Convert to Title Case
           [] number = "4" -> Reverse(text)        \* 4. Reverse content
           [] number = "5" -> text \o text         \* 5. Double content
           [] number = "6" -> RemoveSpaces(text)   \* 6. Remove extra spaces
           [] number = "7" -> text                 \* 7. No modification

\* the numbers of the menu
MenuNumbers == {"1", "2", "3", "4", "5", "6", "7"}

C18_NoFileLeftOpen ==
    (pc \in Prompts \cup {"Done"}) => open_files = {}

\* C18's case: a write failed after the file had been opened and truncated,
\* and write_file has returned to main.
C18_Witness ==
    /\ pc = "WriteRetry"
    /\ last.op = "write"
    /\ last.exc = "OSError"
    /\ last.before # Absent
    /\ fs[output_filename] = <<>>
    /\ open_files = {}

\* a step in which open(..., 'w') is called
OpensForWriting == last'.op = "write" /\ last'.exc # "declined"

\* the step is a line entered at the output path prompt, the path (the line
\* stripped) is not empty, and no file is at that path
EnteredNewPath ==
    /\ pc = "AwaitOutputPath"
    /\ \E line \in FilenameLines :
          /\ EnterOutputPath(line)
          /\ output_filename' = Strip(line)
          /\ output_filename' # <<>>
    /\ output_filename' \in Paths => fs[output_filename'] = Absent

\* the step is a yes at the overwrite prompt, which is shown for the path
\* entered at the output path prompt, where a file is
ConfirmedExistingPath ==
    /\ pc = "ConfirmOverwrite"
    /\ output_filename' = output_filename
    /\ fs[output_filename] # Absent
    /\ \E line \in AnswerLines : Lower(line) = <<"y">> /\ AnswerOverwrite(line)

\* C19: open(..., 'w') is called only with the path entered at the output path
\* prompt, and only in the step that enters a path where no file is or in the
\* step that answers 'y' to the overwrite prompt for it; a step changes no
\* file but the one it opens for writing; so a file whose path was never
\* opened for writing, the input file among them, holds what it held when the
\* program started.
C19_WritesOnlyConfirmedPaths ==
    /\ [](\A p \in Paths \ opened_for_writing : fs[p] = fs0[p])
    /\ [][/\ opened_for_writing' # opened_for_writing => OpensForWriting
          /\ OpensForWriting =>
                /\ opened_for_writing' = opened_for_writing \cup {output_filename'}
                /\ EnteredNewPath \/ ConfirmedExistingPath
          /\ \A p \in Paths :
                fs'[p] # fs[p] => (OpensForWriting /\ p = output_filename')]_vars

\* C19's case: the overwrite of an existing file other than the input file was
\* confirmed and the file written; the input file holds what it held at the
\* start, and no other path was opened for writing.
C19_Witness ==
    /\ Completed
    /\ output_filename # input_filename
    /\ last.before # Absent
    /\ fs[output_filename] # fs0[output_filename]
    /\ opened_for_writing = {output_filename}
    /\ fs[input_filename] = fs0[input_filename]

\* C20: when read_file has read an empty file without an error, main is at the
\* menu (not at the retry prompt) with the empty text as content and only the
\* success message printed; and when the program completes with an empty
\* content, the text written and the output file are empty and both lengths
\* reported are 0.
C20_EmptyFileIsNotAFailure ==
    /\ (last.op = "read" /\ last.exc = "none" /\ fs[input_filename] = <<>>) =>
          /\ pc = "SelectTransform"
          /\ content = <<>>
          /\ printed = <<"Successfully read">>
    /\ (Completed /\ content = <<>>) =>
          /\ fs0[input_filename] = <<>>
          /\ modified_content = <<>>
          /\ fs[output_filename] = <<>>
          /\ reported.original = 0
          /\ reported.modified = 0

\* C20's case: an empty file was read, a type chosen, and an empty file
\* written at another path; 0 and 0 were reported.
C20_Witness ==
    /\ Completed
    /\ content = <<>>
    /\ fs0[input_filename] = <<>>
    /\ output_filename # input_filename
    /\ fs[output_filename] = <<>>
    /\ reported.original = 0
    /\ reported.modified = 0
=============================================================================
